---------------------------- MODULE Spec2Model ----------------------------
(***************************************************************************)
(* Model of backend/controller.js of ai-summarizer: the helpers            *)
(* extractJsonFromString and promiseTextFromResponse and the two request   *)
(* handlers processImage and processPdf.                                   *)
(*                                                                         *)
(* A JavaScript string is a sequence of one-character strings.  A          *)
(* JavaScript value is a record tagged by its kind in field t; the field v *)
(* carries the payload.  Objects are sequences of <<key, value>> pairs in  *)
(* insertion order, keys being JavaScript strings.                         *)
(***************************************************************************)
EXTENDS Integers, Sequences, FiniteSets, TLC

-----------------------------------------------------------------------------
(* JavaScript values *)

Undefined == [t |-> "undefined", v |-> <<>>]
Null == [t |-> "null", v |-> <<>>]
Bool(b) == [t |-> "boolean", v |-> b]
Num(n) == [t |-> "number", v |-> n]
Str(s) == [t |-> "string", v |-> s]
Arr(xs) == [t |-> "array", v |-> xs]
Obj(ps) == [t |-> "object", v |-> ps]
\* a function value; v is what a zero-argument call of it returns
Fn(r) == [t |-> "function", v |-> r]

\* ToBoolean: undefined, null, false, 0 and "" are falsy
Truthy(x) ==
  CASE x.t = "undefined" -> FALSE
    [] x.t = "null" -> FALSE
    [] x.t = "boolean" -> x.v
    [] x.t = "number" -> x.v # 0
    [] x.t = "string" -> Len(x.v) > 0
    [] OTHER -> TRUE

\* the typeof operator
TypeOf(x) ==
  CASE x.t = "null" -> "object"
    [] x.t = "array" -> "object"
    [] OTHER -> x.t

\* x.k for a property name k; reading a property of undefined or null throws,
\* which the callers avoid by testing first or by optional chaining
GetProp(x, k) ==
  IF x.t = "object" /\ \E i \in 1..Len(x.v) : x.v[i][1] = k
    THEN x.v[CHOOSE i \in 1..Len(x.v) : x.v[i][1] = k][2]
    ELSE Undefined

\* x?.[0]
GetFirst(x) ==
  CASE x.t = "array" /\ Len(x.v) > 0 -> x.v[1]
    [] x.t = "string" /\ Len(x.v) > 0 -> Str(<<x.v[1]>>)
    [] OTHER -> Undefined

-----------------------------------------------------------------------------
(* JavaScript strings *)

WsChars == {" ", "\n", "\t"}

IsWs(c) == c \in WsChars

\* index of the first non-whitespace character at or after i, Len(s)+1 if none
SkipWs(s, i) ==
  IF \A j \in i..Len(s) : IsWs(s[j])
    THEN Len(s) + 1
    ELSE CHOOSE j \in i..Len(s) : ~IsWs(s[j]) /\ \A k \in i..(j-1) : IsWs(s[k])

\* index of the last non-whitespace character, 0 if none
LastNonWs(s) ==
  IF \A j \in 1..Len(s) : IsWs(s[j])
    THEN 0
    ELSE Len(s) - (CHOOSE d \in 0..(Len(s) - 1) :
                     ~IsWs(s[Len(s) - d]) /\ \A k \in 0..(d-1) : IsWs(s[Len(s) - k]))

\* String.prototype.trim
Trim(s) == SubSeq(s, SkipWs(s, 1), LastNonWs(s))

\* String.prototype.slice(a, b) for 0 <= a <= b, zero-based, end exclusive
Slice(s, a, b) ==
  SubSeq(s, a + 1, IF b < Len(s) THEN b ELSE Len(s))

\* join that takes the elements last to first
RECURSIVE JoinReversed(_, _)
JoinReversed(xs, sep) ==
  IF Len(xs) = 0 THEN <<>>
  ELSE IF Len(xs) = 1 THEN xs[1]
  ELSE JoinReversed(Tail(xs), sep) \o sep \o xs[1]

\* Array.prototype.join of an array of strings
RECURSIVE Join(_, _)
Join(xs, sep) ==
  IF Len(xs) = 0 THEN <<>>
  ELSE IF Len(xs) = 1 THEN xs[1]
  ELSE xs[1] \o sep \o Join(Tail(xs), sep)

Min(S) == CHOOSE x \in S : \A y \in S : x <= y

Max(S) == CHOOSE x \in S : \A y \in S : x >= y

-----------------------------------------------------------------------------
(* The text of a PDF is a JavaScript string of tens of thousands of        *)
(* characters.  It is held as its runs: a sequence of <<c, n>>, n >= 1     *)
(* copies of the character c, no two neighbouring runs of the same         *)
(* character.  The handler only measures, trims and slices it.             *)

\* text.length
RECURSIVE RunLen(_)
RunLen(t) == IF Len(t) = 0 THEN 0 ELSE t[1][2] + RunLen(Tail(t))

\* text.slice(a, b) for 0 <= a <= b, zero-based, end exclusive
RECURSIVE RunSlice(_, _, _)
RunSlice(t, a, b) ==
  IF Len(t) = 0 \/ b <= 0 \/ b <= a THEN <<>>
  ELSE LET n == t[1][2]
           lo == IF a > 0 THEN a ELSE 0
           hi == IF b < n THEN b ELSE n
       IN (IF hi > lo THEN << <<t[1][1], hi - lo>> >> ELSE <<>>)
            \o RunSlice(Tail(t), a - n, b - n)

\* the trim that removes nothing
RunTrimNothing(t) == t

\* text.trim(): the whitespace runs at both ends are dropped
RunTrim(t) ==
  LET solid == {i \in 1..Len(t) : ~IsWs(t[i][1])}
  IN IF solid = {} THEN <<>> ELSE SubSeq(t, Min(solid), Max(solid))

-----------------------------------------------------------------------------
(* JSON.parse, by recursive descent over the JSON grammar (ECMA-404).      *)
(* A parse step returns [ok, val, pos]: whether a value was read, the      *)
(* value, and the index of the first character after it.  Escape sequences *)
(* in strings and fractions or exponents in numbers are not produced by    *)
(* any input of the model and are not read.                                *)

Quote == "\""

Digits == <<"0", "1", "2", "3", "4", "5", "6", "7", "8", "9">>

IsDigit(c) == \E d \in 1..10 : Digits[d] = c

DigitValue(c) == (CHOOSE d \in 1..10 : Digits[d] = c) - 1

ParseFail == [ok |-> FALSE, val |-> Undefined, pos |-> 0]

ParseOk(x, p) == [ok |-> TRUE, val |-> x, pos |-> p]

\* s has the characters of w starting at index i
HasAt(s, i, w) ==
  /\ i + Len(w) - 1 <= Len(s)
  /\ \A k \in 1..Len(w) : s[i + k - 1] = w[k]

\* a string literal whose opening quote is at index j: it ends at the next
\* quote, and holds no control character and no escape
ParseString(s, j) ==
  LET quotes == {k \in (j+1)..Len(s) : s[k] = Quote}
  IN IF quotes = {}
       THEN ParseFail
       ELSE LET k == Min(quotes)
            IN IF \E m \in (j+1)..(k-1) : s[m] \in {"\n", "\t", "\\"}
                 THEN ParseFail
                 ELSE ParseOk(Str(SubSeq(s, j + 1, k - 1)), k + 1)

RECURSIVE DigitsValue(_, _, _)
DigitsValue(s, a, b) ==
  IF b < a THEN 0 ELSE 10 * DigitsValue(s, a, b - 1) + DigitValue(s[b])

\* a number whose first character (a digit or the minus sign) is at index j
ParseNumber(s, j) ==
  LET neg == s[j] = "-"
      d == IF neg THEN j + 1 ELSE j
  IN IF d > Len(s) \/ ~IsDigit(s[d])
       THEN ParseFail
       ELSE LET e == IF s[d] = "0" THEN d
                     ELSE IF \A k \in d..Len(s) : IsDigit(s[k]) THEN Len(s)
                     ELSE (CHOOSE k \in d..Len(s) :
                             ~IsDigit(s[k]) /\ \A m \in d..(k-1) : IsDigit(s[m])) - 1
                n == DigitsValue(s, d, e)
            IN ParseOk(Num(IF neg THEN 0 - n ELSE n), e + 1)

\* CreateDataProperty: a repeated key keeps its place and takes the new value
PutProp(ps, k, x) ==
  IF \E i \in 1..Len(ps) : ps[i][1] = k
    THEN [i \in 1..Len(ps) |-> IF ps[i][1] = k THEN <<k, x>> ELSE ps[i]]
    ELSE Append(ps, <<k, x>>)

RECURSIVE ParseValue(_, _)
RECURSIVE ParseMembers(_, _, _)
RECURSIVE ParseElements(_, _, _)

\* the members of an object, the first key expected at or after index i
ParseMembers(s, i, acc) ==
  LET j == SkipWs(s, i)
  IN IF j > Len(s) \/ s[j] # Quote THEN ParseFail
     ELSE LET key == ParseString(s, j)
          IN IF ~key.ok THEN ParseFail
             ELSE LET c == SkipWs(s, key.pos)
                  IN IF c > Len(s) \/ s[c] # ":" THEN ParseFail
                     ELSE LET val == ParseValue(s, c + 1)
                          IN IF ~val.ok THEN ParseFail
                             ELSE LET e == SkipWs(s, val.pos)
                                      ps == PutProp(acc, key.val.v, val.val)
                                  IN IF e > Len(s) THEN ParseFail
                                     ELSE IF s[e] = "}" THEN ParseOk(Obj(ps), e + 1)
                                     ELSE IF s[e] = "," THEN ParseMembers(s, e + 1, ps)
                                     ELSE ParseFail

\* the elements of an array, the next element expected at or after index i
ParseElements(s, i, acc) ==
  LET val == ParseValue(s, i)
  IN IF ~val.ok THEN ParseFail
     ELSE LET e == SkipWs(s, val.pos)
              xs == Append(acc, val.val)
          IN IF e > Len(s) THEN ParseFail
             ELSE IF s[e] = "]" THEN ParseOk(Arr(xs), e + 1)
             ELSE IF s[e] = "," THEN ParseElements(s, e + 1, xs)
             ELSE ParseFail

\* a JSON value, leading whitespace allowed, starting at or after index i
ParseValue(s, i) ==
  LET j == SkipWs(s, i)
  IN IF j > Len(s) THEN ParseFail
     ELSE IF s[j] = "{"
       THEN LET m == SkipWs(s, j + 1)
            IN IF m <= Len(s) /\ s[m] = "}" THEN ParseOk(Obj(<<>>), m + 1)
               ELSE ParseMembers(s, j + 1, <<>>)
     ELSE IF s[j] = "["
       THEN LET m == SkipWs(s, j + 1)
            IN IF m <= Len(s) /\ s[m] = "]" THEN ParseOk(Arr(<<>>), m + 1)
               ELSE ParseElements(s, j + 1, <<>>)
     ELSE IF s[j] = Quote THEN ParseString(s, j)
     ELSE IF s[j] = "-" \/ IsDigit(s[j]) THEN ParseNumber(s, j)
     ELSE IF HasAt(s, j, <<"t", "r", "u", "e">>) THEN ParseOk(Bool(TRUE), j + 4)
     ELSE IF HasAt(s, j, <<"f", "a", "l", "s", "e">>) THEN ParseOk(Bool(FALSE), j + 5)
     ELSE IF HasAt(s, j, <<"n", "u", "l", "l">>) THEN ParseOk(Null, j + 4)
     ELSE ParseFail

\* JSON.parse(s): ok is FALSE where JSON.parse throws a SyntaxError
JSONParse(s) ==
  LET r == ParseValue(s, 1)
  IN IF r.ok /\ SkipWs(s, r.pos) > Len(s)
       THEN [ok |-> TRUE, val |-> r.val]
       ELSE [ok |-> FALSE, val |-> Undefined]

-----------------------------------------------------------------------------
(* extractJsonFromString *)

\* the grave accent (backtick) character, which a TLA+ string literal cannot
\* hold; every other character is the one-character string of itself
Backtick == "BACKTICK"

Fence == <<Backtick, Backtick, Backtick>>

FenceTag == <<"j", "s", "o", "n">>

\* s.replace(re, "") for the two global fence patterns: three backticks
\* with an optional json tag (tagged), and three backticks alone; matches
\* are taken left to right from index from, each starting where the
\* previous one ended
RECURSIVE RemoveFences(_, _, _)
RemoveFences(s, from, tagged) ==
  LET starts == {i \in from..Len(s) : s[i] = Backtick /\ HasAt(s, i, Fence)}
  IN IF starts = {}
       THEN SubSeq(s, from, Len(s))
       ELSE LET i == Min(starts)
                e == IF tagged /\ HasAt(s, i + 3, FenceTag) THEN i + 7 ELSE i + 3
            IN SubSeq(s, from, i - 1) \o RemoveFences(s, e, tagged)

Cleaned(s) == Trim(RemoveFences(RemoveFences(s, 1, TRUE), 1, FALSE))

\* cleaned.match of the greedy brace pattern: from the first "{" to the
\* last "}" after it
BraceMatch(c) ==
  LET opens == {i \in 1..Len(c) : c[i] = "{"}
      closes == {i \in 1..Len(c) : c[i] = "}"}
  IN IF opens = {} \/ closes = {} \/ Max(closes) < Min(opens)
       THEN [found |-> FALSE, text |-> <<>>]
       ELSE [found |-> TRUE, text |-> SubSeq(c, Min(opens), Max(closes))]

\* line 41 without its typeof test
NotAStringFalsyOnly(s) == ~Truthy(s)

\* line 41: the inputs for which the function returns null at once
NotAString(s) == ~Truthy(s) \/ TypeOf(s) # "string"

\* [threw, val]: threw is TRUE where an exception leaves the function.
\* s.replace is a TypeError on a value that has no replace method; a
\* SyntaxError of JSON.parse is caught by the try block around it.
extractJsonFromString(s) ==
  IF NotAString(s)
    THEN [threw |-> FALSE, val |-> Null]
  ELSE IF s.t # "string"
    THEN [threw |-> TRUE, val |-> Undefined]
  ELSE LET cleaned == Cleaned(s.v)
           strict == JSONParse(cleaned)
       IN IF strict.ok
            THEN [threw |-> FALSE, val |-> strict.val]
            ELSE LET match == BraceMatch(cleaned)
                 IN IF ~match.found
                      THEN [threw |-> FALSE, val |-> Null]
                      ELSE LET salvage == JSONParse(match.text)
                           IN IF salvage.ok
                                THEN [threw |-> FALSE, val |-> salvage.val]
                                ELSE [threw |-> FALSE, val |-> Null]

-----------------------------------------------------------------------------
(* promiseTextFromResponse *)

kText == <<"t", "e", "x", "t">>

kCandidates == <<"c", "a", "n", "d", "i", "d", "a", "t", "e", "s">>

kContent == <<"c", "o", "n", "t", "e", "n", "t">>

kParts == <<"p", "a", "r", "t", "s">>

kOutputText == <<"o", "u", "t", "p", "u", "t", "_", "t", "e", "x", "t">>

kSummary == <<"s", "u", "m", "m", "a", "r", "y">>

kTitle == <<"t", "i", "t", "l", "e">>

kDescription == <<"d", "e", "s", "c", "r", "i", "p", "t", "i", "o", "n">>

RECURSIVE NumberToString(_)
NumberToString(n) ==
  IF n < 0 THEN <<"-">> \o NumberToString(0 - n)
  ELSE IF n < 10 THEN <<Digits[n + 1]>>
  ELSE NumberToString(n \div 10) \o <<Digits[(n % 10) + 1]>>

\* the characters JSON.stringify writes for one character of a string
EscapeChar(c) ==
  CASE c = Quote -> <<"\\", Quote>>
    [] c = "\\" -> <<"\\", "\\">>
    [] c = "\n" -> <<"\\", "n">>
    [] c = "\t" -> <<"\\", "t">>
    [] OTHER -> <<c>>

RECURSIVE EscapeString(_)
EscapeString(s) ==
  IF \A i \in 1..Len(s) : EscapeChar(s[i]) = <<s[i]>> THEN s
  ELSE EscapeChar(Head(s)) \o EscapeString(Tail(s))

\* JSON.stringify leaves out a property whose value is undefined or a function
Serializable(x) == x.t \notin {"undefined", "function"}

RECURSIVE StringifyValue(_)
RECURSIVE StringifyProps(_, _)
RECURSIVE StringifyItems(_)

StringifyProps(ps, first) ==
  IF Len(ps) = 0 THEN <<>>
  ELSE IF ~Serializable(ps[1][2]) THEN StringifyProps(Tail(ps), first)
  ELSE (IF first THEN <<>> ELSE <<",">>)
         \o <<Quote>> \o EscapeString(ps[1][1]) \o <<Quote, ":">>
         \o StringifyValue(ps[1][2]) \o StringifyProps(Tail(ps), FALSE)

StringifyItems(xs) ==
  IF Len(xs) = 0 THEN <<>>
  ELSE (IF Serializable(xs[1]) THEN StringifyValue(xs[1]) ELSE <<"n", "u", "l", "l">>)
         \o (IF Len(xs) > 1 THEN <<",">> ELSE <<>>) \o StringifyItems(Tail(xs))

StringifyValue(x) ==
  CASE x.t = "null" -> <<"n", "u", "l", "l">>
    [] x.t = "boolean" -> IF x.v THEN <<"t", "r", "u", "e">> ELSE <<"f", "a", "l", "s", "e">>
    [] x.t = "number" -> NumberToString(x.v)
    [] x.t = "string" -> <<Quote>> \o EscapeString(x.v) \o <<Quote>>
    [] x.t = "array" -> <<"[">> \o StringifyItems(x.v) \o <<"]">>
    [] x.t = "object" -> <<"{">> \o StringifyProps(x.v, TRUE) \o <<"}">>

\* JSON.stringify(x): undefined for undefined and for a function
JSONStringify(x) == IF Serializable(x) THEN Str(StringifyValue(x)) ELSE Undefined

\* response?.candidates?.[0]?.content
CandidateContent(response) ==
  GetProp(GetFirst(GetProp(response, kCandidates)), kContent)

\* the text of the last part instead of the first
PartsTextLast(response) ==
  LET ps == GetProp(CandidateContent(response), kParts)
  IN IF ps.t = "array" /\ Len(ps.v) > 0 THEN GetProp(ps.v[Len(ps.v)], kText) ELSE Undefined

\* response?.candidates?.[0]?.content?.parts?.[0]?.text
PartsText(response) ==
  GetProp(GetFirst(GetProp(CandidateContent(response), kParts)), kText)

promiseTextFromResponse(response) ==
  IF ~Truthy(response) THEN Null
  ELSE IF TypeOf(GetProp(response, kText)) = "function" THEN GetProp(response, kText).v
  ELSE IF Truthy(PartsText(response)) THEN PartsText(response)
  ELSE IF Truthy(GetProp(CandidateContent(response), kText))
    THEN GetProp(CandidateContent(response), kText)
  ELSE IF Truthy(GetProp(response, kOutputText)) THEN GetProp(response, kOutputText)
  ELSE IF TypeOf(response) = "string" THEN response
  ELSE JSONStringify(response)

-----------------------------------------------------------------------------
(* State *)

VARIABLES
  pc,             \* where the handler is: "idle", an await point, or "done"
  data,           \* processPdf: what pdf(buffer) resolved to, NotYet before
  text,           \* processPdf: the trimmed text of the PDF
  chunks,         \* processPdf: the chunk plan
  chunkSummaries, \* processPdf: the summaries pushed so far
  calls,          \* the generateContent calls issued, in order
  replies,        \* the outcomes of those calls received so far, in order
  res,            \* the response sent: [status, body], or NoResponse
  jin,            \* the argument of a lone extractJsonFromString call
  jout,           \* its result
  jpc,            \* "ready" before the call, "done" after it
  tin,            \* the argument of a lone promiseTextFromResponse call
  tout,           \* its result
  tpc             \* "ready" before the call, "done" after it

vars == <<pc, data, text, chunks, chunkSummaries, calls, replies, res, jin, jout, jpc,
          tin, tout, tpc>>

pipeVars == <<pc, data, text, chunks, chunkSummaries, calls, replies, res>>

jsonVars == <<jin, jout, jpc>>

textVars == <<tin, tout, tpc>>

NoResponse == [status |-> 0, body |-> [none |-> TRUE]]

NotYet == [t |-> "pending", v |-> <<>>]

-----------------------------------------------------------------------------
(* Bounds and inputs of the pipeline *)

\* the longest extracted text has this many chunks
MaxChunks == 3

CHUNK_SIZE == 24000

MaxSummaryLen == 4000

KeptLen == 3997

MAX_BYTES == 10 * 1024 * 1024

Ellipsis == <<".", ".", ".">>

mimePdf == <<"a", "p", "p", "l", "i", "c", "a", "t", "i", "o", "n", "/", "p", "d", "f">>

mimePng == <<"i", "m", "a", "g", "e", "/", "p", "n", "g">>

\* req.file as multer leaves it, NoFile when the request carries none
NoFile == [present |-> FALSE]

File(m, n, z) == [present |-> TRUE, mimetype |-> m, originalname |-> n, size |-> z]

Files ==
  {NoFile} \cup
  { File(m, n, z) :
      m \in {Str(mimePdf), Str(mimePng), Undefined},
      n \in {Str(<<"A", ".", "P", "D", "F">>), Undefined},
      z \in {MAX_BYTES, MAX_BYTES + 1} }

\* the characters of the PDF texts, two for each chunk boundary
Letters == <<"c", "d", "e", "f", "g", "h", "i", "j", "k", "l", "m", "n">>

\* a long text whose runs end one character after every multiple of
\* CHUNK_SIZE, so that each boundary of the chunk plan falls inside a run
RECURSIVE PatternRuns(_)
PatternRuns(k) ==
  IF k = 0
    THEN << <<"a", 10>>, <<" ", 3>>, <<"b", CHUNK_SIZE - 14>> >>
    ELSE PatternRuns(k - 1) \o << <<Letters[2 * k - 1], 2>>, <<Letters[2 * k], CHUNK_SIZE - 2>> >>

\* the first n characters of that text
Body(n) == RunSlice(PatternRuns(MaxChunks), 0, n)

\* the lengths of the trimmed texts: around every multiple of CHUNK_SIZE
TextLengths ==
  {0, 1} \cup { k * CHUNK_SIZE + d : k \in 1..(MaxChunks - 1), d \in {0, 1} }

\* what awaiting pdf(buffer) gives: a rejection, or the parsed document
PdfOutcomes ==
  {[threw |-> TRUE, message |-> "bad XRef entry"]} \cup
  { [threw |-> FALSE, data |-> d] :
      d \in {Undefined, Obj(<< <<kText, Num(7)>> >>), Obj(<< <<kText, Str(<<>>)>> >>),
             Obj(<< <<kText, Str(<< <<" ", 2>>, <<"\n", 1>>, <<"\t", 1>> >>)>> >>)} \cup
            { Obj(<< <<kText, Str(<< <<" ", 1>> >> \o Body(n) \o << <<"\n", 2>> >>)>> >>) :
                n \in TextLengths } }

\* n copies of the character c
Run(c, n) == [i \in 1..n |-> c]

\* the shapes of a generateContent result
TextFn(t) == Obj(<< <<kText, Fn(Str(t))>> >>)

Candidates(t) ==
  LET part == Obj(<< <<kText, Str(t)>> >>)
      content == Obj(<< <<kParts, Arr(<<part>>)>> >>)
      candidate == Obj(<< <<kContent, content>> >>)
  IN Obj(<< <<kCandidates, Arr(<<candidate>>)>> >>)

OutputText(t) == Obj(<< <<kOutputText, Str(t)>> >>)

\* the text of a JSON object with the one member key: lit
Member(key, lit) == <<Quote>> \o key \o <<Quote, ":">> \o lit

Quoted(s) == <<Quote>> \o s \o <<Quote>>

SummaryJson(lit) == <<"{">> \o Member(kSummary, lit) \o <<"}">>

Fenced(t) == Fence \o FenceTag \o <<"\n">> \o t \o <<"\n">> \o Fence

\* what awaiting generateContent gives in processPdf: a rejection or a result
SummaryOutcomes ==
  {[threw |-> TRUE, message |-> "quota exceeded"]} \cup
  { [threw |-> FALSE, response |-> r] :
      r \in { TextFn(SummaryJson(Quoted(<<"a", " ", "a">>))),
              Candidates(Fenced(SummaryJson(Quoted(<<" ">> \o Run("b", MaxSummaryLen) \o <<" ">>)))),
              OutputText(SummaryJson(Quoted(<<" ", " ">>))),
              Str(<<"O", "K", " ">> \o SummaryJson(Quoted(Run("c", MaxSummaryLen + 1)))),
              TextFn(SummaryJson(<<"7">>)),
              TextFn(<<"n", "o", " ", "t", "e", "x", "t">>),
              Candidates(SummaryJson(Quoted(<<>>))),
              Undefined } }

\* the member texts an image reply may have for one key: none, or a literal
FieldTexts(key) ==
  { <<>> } \cup
  { Member(key, lit) :
      lit \in { Quoted(<<" ", "T", " ">>), Quoted(<<" ", " ">>), Quoted(<<>>),
                <<"7">>, <<"n", "u", "l", "l">> } }

ImageJson(a, b) ==
  <<"{">> \o a \o (IF Len(a) > 0 /\ Len(b) > 0 THEN <<",">> ELSE <<>>) \o b \o <<"}">>

\* what awaiting generateContent gives in processImage
ImageOutcomes ==
  {[threw |-> TRUE, message |-> "quota exceeded"]} \cup
  { [threw |-> FALSE, response |-> r] :
      r \in { TextFn(ImageJson(a, b)) : a \in FieldTexts(kTitle), b \in FieldTexts(kDescription) }
            \cup { TextFn(<<"n", "o", " ", "t", "e", "x", "t">>),
                   Candidates(<<"[", "1", "]">>),
                   Undefined } }

-----------------------------------------------------------------------------
(* Helpers of the handlers *)

StartsWith(s, w) == HasAt(s, 1, w)

EndsWith(s, w) == Len(s) >= Len(w) /\ HasAt(s, Len(s) - Len(w) + 1, w)

LowerChar(c) ==
  CASE c = "A" -> "a" [] c = "P" -> "p" [] c = "D" -> "d" [] c = "F" -> "f" [] OTHER -> c

\* String.prototype.toLowerCase
ToLowerCase(s) == [i \in 1..Len(s) |-> LowerChar(s[i])]

\* res.status(st).json(b); a bare res.json(b) sends status 200
Respond(st, b) ==
  /\ res' = [status |-> st, body |-> b]
  /\ pc' = "done"

\* ai.models.generateContent({model, contents: [prompt, part]}) is issued
IssueCall(prompt, part) == calls' = Append(calls, [prompt |-> prompt, part |-> part])

\* the catch block of processPdf
PdfCaught(message) ==
  Respond(500, [error |-> "Failed to process PDF.", details |-> message])

\* the catch block of processImage
ImageCaught(message) ==
  Respond(500, [error |-> "Failed to analyze image.", details |-> message])

\* lines 160-165: the upload counts as a PDF
IsPdfFile(file) ==
  \/ file.mimetype = Str(mimePdf)
  \/ /\ file.originalname.t = "string"
     /\ EndsWith(ToLowerCase(file.originalname.v), <<".", "p", "d", "f">>)

\* line 82: mimetype?.startsWith?.("image/")
IsImageFile(file) ==
  /\ file.mimetype.t = "string"
  /\ StartsWith(file.mimetype.v, <<"i", "m", "a", "g", "e", "/">>)

\* the loop of lines 185-188 with i <= text.length for its test
RECURSIVE ChunkLoopInclusive(_, _, _)
ChunkLoopInclusive(t, i, acc) ==
  IF i <= RunLen(t)
    THEN ChunkLoopInclusive(t, i + CHUNK_SIZE, Append(acc, RunSlice(t, i, i + CHUNK_SIZE)))
    ELSE acc

\* lines 185-188: the loop that fills chunks, i being the loop variable
RECURSIVE ChunkLoop(_, _, _)
ChunkLoop(t, i, acc) ==
  IF i < RunLen(t)
    THEN ChunkLoop(t, i + CHUNK_SIZE, Append(acc, RunSlice(t, i, i + CHUNK_SIZE)))
    ELSE acc

\* lines 203 and 226-230: the reply is refused as having no summary
SummaryRejected(parsed) ==
  \/ ~Truthy(parsed)
  \/ TypeOf(parsed) # "object"
  \/ ~Truthy(GetProp(parsed, kSummary))

\* lines 206-209: the failure sent when the reply for the chunk at position
\* k of the plan is refused, textOut being the text of that reply
ChunkFailure(k, textOut) ==
  [error |-> "Failed to parse Gemini summary for a PDF chunk.",
   geminiRawResponse |-> textOut]

\* lines 232-235: the failure sent when the combine reply is refused
CombineFailure(combineText) ==
  [error |-> "Failed to parse combined summary from Gemini.",
   geminiRawResponse |-> combineText]

\* lines 241-242 keeping 4000 characters before the marker
CapKeepsLimit(finalSummary) ==
  IF Len(finalSummary) > MaxSummaryLen
    THEN Slice(finalSummary, 0, MaxSummaryLen) \o Ellipsis
    ELSE finalSummary

\* lines 241-242: the length limit on the final summary
Cap(finalSummary) ==
  IF Len(finalSummary) > MaxSummaryLen
    THEN Slice(finalSummary, 0, KeptLen) \o Ellipsis
    ELSE finalSummary

\* lines 240-244
Finish(finalSummary) == Respond(200, [summary |-> Cap(finalSummary)])

\* line 217 with length >= 1 for its test
NeedsCombineAlways(sums) == Len(sums) >= 1

\* line 217: the summaries are sent to the model to be combined
NeedsCombine(sums) == Len(sums) > 1

\* lines 121-128 without the trim
RequiredFieldUntrimmed(parsed, key) ==
  IF Truthy(GetProp(parsed, key)) /\ TypeOf(GetProp(parsed, key)) = "string"
    THEN GetProp(parsed, key)
    ELSE Null

\* lines 121-128: a required key of the image reply, null when it is refused
RequiredField(parsed, key) ==
  IF Truthy(GetProp(parsed, key)) /\ TypeOf(GetProp(parsed, key)) = "string"
    THEN Str(Trim(GetProp(parsed, key).v))
    ELSE Null

-----------------------------------------------------------------------------
(* processPdf *)

\* lines 151-174: the request is checked and pdf(buffer) is awaited
ProcessPdfRequest(file) ==
  /\ pc = "idle"
  /\ IF ~file.present
       THEN Respond(400, [error |-> "No PDF file provided."])
     ELSE IF ~IsPdfFile(file)
       THEN Respond(400, [error |-> "Uploaded file is not a PDF."])
     ELSE IF file.size > MAX_BYTES
       THEN Respond(413, [error |-> "PDF exceeds maximum size of 10MB."])
     ELSE pc' = "pdf_parse" /\ res' = res
  /\ UNCHANGED <<data, text, chunks, chunkSummaries, calls, replies, jsonVars, textVars>>

\* lines 174-199: the text is trimmed and chunked, the first chunk is sent
PdfParsed(outcome) ==
  /\ pc = "pdf_parse"
  /\ IF outcome.threw
       THEN PdfCaught(outcome.message) /\ UNCHANGED <<data, text, chunks, calls>>
     ELSE LET t == GetProp(outcome.data, kText)
              raw == IF Truthy(t) THEN t ELSE Str(<<>>)
          IN /\ data' = outcome.data
             /\ IF raw.t # "string"
                  THEN /\ PdfCaught("(data?.text || \"\").trim is not a function")
                       /\ UNCHANGED <<text, chunks, calls>>
                ELSE IF RunLen(RunTrim(raw.v)) = 0
                  THEN /\ text' = RunTrim(raw.v)
                       /\ Respond(422, [error |-> "No selectable text found in PDF. If the PDF is scanned, Kindly upload a text-based PDF."])
                       /\ UNCHANGED <<chunks, calls>>
                ELSE /\ text' = RunTrim(raw.v)
                     /\ chunks' = ChunkLoop(text', 0, <<>>)
                     /\ IssueCall("pdf_chunk_prompt", [text |-> chunks'[1]])
                     /\ pc' = "pdf_chunk"
                     /\ res' = res
  /\ UNCHANGED <<chunkSummaries, replies, jsonVars, textVars>>

\* lines 203-244 with the reply parsed: textOut is the text of the reply and
\* ext what extractJsonFromString made of it
ChunkParsed(textOut, ext) ==
  IF ext.threw
    THEN /\ PdfCaught("s.replace is not a function")
         /\ UNCHANGED <<chunkSummaries, calls>>
  ELSE IF SummaryRejected(ext.val)
    THEN /\ Respond(500, ChunkFailure(Len(chunkSummaries) + 1, textOut))
         /\ UNCHANGED <<chunkSummaries, calls>>
  ELSE IF GetProp(ext.val, kSummary).t # "string"
    THEN /\ PdfCaught("parsed.summary.trim is not a function")
         /\ UNCHANGED <<chunkSummaries, calls>>
  ELSE /\ chunkSummaries' = Append(chunkSummaries, Trim(GetProp(ext.val, kSummary).v))
       /\ IF Len(chunkSummaries') < Len(chunks)
            THEN /\ IssueCall("pdf_chunk_prompt",
                              [text |-> chunks[Len(chunkSummaries') + 1]])
                 /\ UNCHANGED <<pc, res>>
          ELSE IF NeedsCombine(chunkSummaries')
            THEN /\ IssueCall("pdf_combine_prompt",
                              [text |-> Join(chunkSummaries', <<"\n", "\n">>)])
                 /\ pc' = "pdf_combine"
                 /\ res' = res
          ELSE /\ Finish(Join(chunkSummaries', <<"\n", "\n">>))
               /\ UNCHANGED calls

\* lines 200-201: the text of the reply is taken and parsed
ChunkText(textOut) == ChunkParsed(textOut, extractJsonFromString(textOut))

\* lines 199-244: the reply for the chunk in turn arrives; its summary is
\* pushed and the next chunk or the combined summaries are sent, or the
\* single summary is returned
PdfChunkReplied(outcome) ==
  /\ pc = "pdf_chunk"
  /\ replies' = Append(replies, outcome)
  /\ IF outcome.threw
       THEN PdfCaught(outcome.message) /\ UNCHANGED <<chunkSummaries, calls>>
     ELSE ChunkText(promiseTextFromResponse(outcome.response))
  /\ UNCHANGED <<data, text, chunks, jsonVars, textVars>>

\* lines 226-244 with the combine reply parsed
CombineParsed(combineText, ext) ==
  IF ext.threw
    THEN PdfCaught("s.replace is not a function")
  ELSE IF SummaryRejected(ext.val)
    THEN Respond(500, CombineFailure(combineText))
  ELSE IF GetProp(ext.val, kSummary).t # "string"
    THEN PdfCaught("combineParsed.summary.trim is not a function")
  ELSE Finish(Trim(GetProp(ext.val, kSummary).v))

\* lines 223-224: the text of the combine reply is taken and parsed
CombineText(combineText) == CombineParsed(combineText, extractJsonFromString(combineText))

\* lines 222-244: the reply to the combine call arrives
PdfCombineReplied(outcome) ==
  /\ pc = "pdf_combine"
  /\ replies' = Append(replies, outcome)
  /\ IF outcome.threw
       THEN PdfCaught(outcome.message)
     ELSE CombineText(promiseTextFromResponse(outcome.response))
  /\ UNCHANGED <<data, text, chunks, chunkSummaries, calls, jsonVars, textVars>>

-----------------------------------------------------------------------------
(* processImage *)

\* lines 73-102: the request is checked and the image is sent to the model
ProcessImageRequest(file) ==
  /\ pc = "idle"
  /\ IF ~file.present
       THEN Respond(400, [error |-> "No image file provided."]) /\ UNCHANGED calls
     ELSE IF ~IsImageFile(file)
       THEN Respond(400, [error |-> "Uploaded file is not an image."]) /\ UNCHANGED calls
     ELSE IF file.size > MAX_BYTES
       THEN /\ Respond(413, [error |-> "Image exceeds maximum size of 10MB."])
            /\ UNCHANGED calls
     ELSE /\ IssueCall("image_prompt", [inlineData |-> [mimeType |-> file.mimetype.v]])
          /\ pc' = "image_call"
          /\ res' = res
  /\ UNCHANGED <<data, text, chunks, chunkSummaries, replies, jsonVars, textVars>>

\* lines 130-138 with both required keys read
ImageFields(parsed, title, description) ==
  IF ~Truthy(title) \/ ~Truthy(description)
    THEN Respond(500, [error |-> "Gemini returned JSON but required keys are missing or invalid.",
                       geminiJson |-> parsed])
    ELSE Respond(200, [title |-> title.v, description |-> description.v])

\* lines 109-128 with the reply parsed
ImageParsed(textOut, ext) ==
  IF ext.threw
    THEN ImageCaught("s.replace is not a function")
  ELSE IF ~Truthy(ext.val) \/ TypeOf(ext.val) # "object"
    THEN Respond(500, [error |-> "Failed to parse Gemini's JSON response.",
                       geminiRawResponse |-> textOut])
  ELSE ImageFields(ext.val, RequiredField(ext.val, kTitle), RequiredField(ext.val, kDescription))

\* lines 105-108: the text of the reply is taken and parsed
ImageText(textOut) == ImageParsed(textOut, extractJsonFromString(textOut))

\* lines 102-138: the reply arrives and is checked
ImageReplied(outcome) ==
  /\ pc = "image_call"
  /\ replies' = Append(replies, outcome)
  /\ IF outcome.threw
       THEN ImageCaught(outcome.message)
     ELSE ImageText(promiseTextFromResponse(outcome.response))
  /\ UNCHANGED <<data, text, chunks, chunkSummaries, calls, jsonVars, textVars>>

-----------------------------------------------------------------------------
(* The handlers as a state machine: one request, from arrival to response *)

Init ==
  /\ pc = "idle"
  /\ data = NotYet
  /\ text = <<>>
  /\ chunks = <<>>
  /\ chunkSummaries = <<>>
  /\ calls = <<>>
  /\ replies = <<>>
  /\ res = NoResponse
  /\ jin = Undefined
  /\ jout = [threw |-> FALSE, val |-> Undefined]
  /\ jpc = "idle"
  /\ tin = Undefined
  /\ tout = Undefined
  /\ tpc = "idle"

Next ==
  \/ \E file \in Files : ProcessPdfRequest(file)
  \/ \E outcome \in PdfOutcomes : PdfParsed(outcome)
  \/ \E outcome \in SummaryOutcomes : PdfChunkReplied(outcome)
  \/ \E outcome \in SummaryOutcomes : PdfCombineReplied(outcome)
  \/ \E file \in Files : ProcessImageRequest(file)
  \/ \E outcome \in ImageOutcomes : ImageReplied(outcome)

Spec == Init /\ [][Next]_vars

-----------------------------------------------------------------------------
(* Claims about processPdf and processImage *)

\* what the handlers make of a result that arrived: its text, the JSON
\* recovered from it, and the summary member of that JSON
ReplyText(o) == promiseTextFromResponse(o.response)

Recovered(o) == extractJsonFromString(ReplyText(o)).val

ReplySummary(o) == GetProp(Recovered(o), kSummary)

\* a value is a string that is not empty once trimmed
NonBlankString(x) == x.t = "string" /\ Len(Trim(x.v)) > 0

\* the reply arrived and its summary is a non-blank string
ValidSummary(o) == ~o.threw /\ NonBlankString(ReplySummary(o))

\* the reply arrived and fails extraction, recovery or validation
FailedSummary(o) == ~o.threw /\ ~NonBlankString(ReplySummary(o))

\* a final summary under the length limit of 4000 characters
Capped(f) ==
  IF Len(f) <= 4000 THEN f ELSE SubSeq(f, 1, 3997) \o <<".", ".", ".">>

\* the summaries of the first n replies, in order, a blank line between them
RECURSIVE SummariesInOrder(_)
SummariesInOrder(n) ==
  IF n = 1 THEN Trim(ReplySummary(replies[1]).v)
  ELSE SummariesInOrder(n - 1) \o <<"\n", "\n">> \o Trim(ReplySummary(replies[n]).v)

ReturnedSummary == pc = "done" /\ res.status = 200 /\ "summary" \in DOMAIN res.body

IsCombineCall(c) == c.prompt = "pdf_combine_prompt"

IsChunkCall(c) == c.prompt = "pdf_chunk_prompt"

\* C1: when the reply for chunk k fails extraction, JSON recovery or summary
\* validation, the run ends with a failure response: nothing is sent to the
\* model after the call for chunk k (no later chunk, no combine call) and no
\* summary is returned.
C1_ChunkFailureAborts ==
  \A k \in 1..Len(replies) :
    (k <= Len(chunks) /\ FailedSummary(replies[k])) =>
      /\ Len(calls) = k
      /\ pc = "done"
      /\ res.status = 500
      /\ "summary" \notin DOMAIN res.body

\* C2: when the text is one chunk and the reply for it validates, the run
\* makes exactly one model call, none of them a combine call, and returns
\* that chunk's summary, changed only by the length limit.
C2_SingleChunkNoCombine ==
  (Len(chunks) = 1 /\ Len(replies) >= 1 /\ ValidSummary(replies[1])) =>
    /\ Len(calls) = 1
    /\ IsChunkCall(calls[1])
    /\ Len(replies) = 1
    /\ ReturnedSummary
    /\ res.body.summary = Capped(Trim(ReplySummary(replies[1]).v))

\* C2 witness: a one-chunk run whose reply validated has ended
C2_Witness ==
  /\ Len(chunks) = 1
  /\ Len(replies) = 1
  /\ ValidSummary(replies[1])
  /\ pc = "done"
  /\ Len(res.body.summary) = 3

\* C3: when the text is n > 1 chunks and every chunk reply validates, exactly
\* one combine call is issued, after the n chunk calls have all been
\* answered; its text is the n chunk summaries in chunk order, summary i
\* being that of the reply to chunk i, with a blank line between them; and
\* the summary returned is the one in the combine reply, under the length
\* limit, not the concatenation.
C3_CombineAfterAllChunks ==
  /\ \A j \in 1..Len(calls) :
       IsCombineCall(calls[j]) => j = Len(chunks) + 1 /\ Len(replies) >= Len(chunks)
  /\ ( /\ Len(chunks) > 1
       /\ Len(replies) >= Len(chunks)
       /\ \A i \in 1..Len(chunks) : ValidSummary(replies[i]) ) =>
     LET n == Len(chunks)
     IN /\ Len(calls) = n + 1
        /\ \A i \in 1..n : IsChunkCall(calls[i]) /\ calls[i].part.text = chunks[i]
        /\ IsCombineCall(calls[n + 1])
        /\ calls[n + 1].part.text = SummariesInOrder(n)
        /\ ReturnedSummary =>
             /\ Len(replies) = n + 1
             /\ res.body.summary = Capped(Trim(ReplySummary(replies[n + 1]).v))

\* C3 witness: a run of two or more chunks, all valid and different, has
\* returned the summary of the combine reply
C3_Witness ==
  /\ Len(chunks) > 1
  /\ Len(replies) = Len(chunks) + 1
  /\ \A i \in 1..Len(replies) : ValidSummary(replies[i])
  /\ replies[1] # replies[2]
  /\ ReturnedSummary
  /\ res.body.summary # calls[Len(calls)].part.text

\* the text that pdf(buffer) returned is empty or all whitespace
BlankExtraction ==
  /\ data # NotYet
  /\ GetProp(data, kText).t = "string"
  /\ \A i \in 1..Len(GetProp(data, kText).v) : GetProp(data, kText).v[i][1] \in WsChars

\* C4: when the text that PDF extraction returns is empty or whitespace-only,
\* the run ends with the "no selectable text" failure and no model call is
\* ever issued.
C4_BlankTextNoModelCall ==
  BlankExtraction =>
    /\ pc = "done"
    /\ res.status = 422
    /\ res.body = [error |-> "No selectable text found in PDF. If the PDF is scanned, Kindly upload a text-based PDF."]
    /\ calls = <<>>
    /\ replies = <<>>

\* C4 witness: extraction returned a text of whitespace only
C4_Witness ==
  /\ BlankExtraction
  /\ RunLen(GetProp(data, kText).v) > 1
  /\ pc = "done"

\* the final summary of a run that returned one, before the length limit
FinalSummary ==
  IF Len(chunks) = 1
    THEN chunkSummaries[1]
    ELSE Trim(ReplySummary(replies[Len(replies)]).v)

\* C5: every summary returned has at most 4000 characters: a final summary
\* longer than that is returned as its first 3997 characters followed by
\* "...", 4000 characters in all, and a shorter one is returned unchanged.
C5_SummaryLengthCap ==
  ReturnedSummary =>
    /\ Len(res.body.summary) <= 4000
    /\ IF Len(FinalSummary) > 4000
         THEN /\ Len(res.body.summary) = 4000
              /\ SubSeq(res.body.summary, 1, 3997) = SubSeq(FinalSummary, 1, 3997)
              /\ SubSeq(res.body.summary, 3998, 4000) = <<".", ".", ".">>
         ELSE res.body.summary = FinalSummary

\* C5 witness: a final summary of 4001 characters was returned shortened
C5_Witness ==
  /\ ReturnedSummary
  /\ Len(FinalSummary) = 4001
  /\ Len(res.body.summary) = 4000

\* C5 witness of the other case: the run returned a final summary of exactly 4000 characters
C5_WitnessAtLimit ==
  /\ ReturnedSummary
  /\ Len(FinalSummary) = 4000

\* the number of slices of size c that cover n characters
CeilDiv(n, c) == (n + c - 1) \div c

\* two texts end to end
RunCat(a, b) ==
  IF Len(a) = 0 THEN b
  ELSE IF Len(b) = 0 THEN a
  ELSE IF a[Len(a)][1] = b[1][1]
    THEN SubSeq(a, 1, Len(a) - 1) \o << <<b[1][1], a[Len(a)][2] + b[1][2]>> >> \o Tail(b)
  ELSE a \o b

\* the first n slices of the plan end to end
RECURSIVE ChunksCat(_)
ChunksCat(n) == IF n = 0 THEN <<>> ELSE RunCat(ChunksCat(n - 1), chunks[n])

\* C6: for a non-empty text of length L the chunk plan has ceil(L / 24000)
\* slices in text order, each of 24000 characters except the last, which has
\* between 1 and 24000, and the slices put end to end are the text; so 24000
\* characters are 1 chunk and 24001 are 2, the second of one character.
C6_ChunkPlan ==
  RunLen(text) > 0 =>
    LET n == Len(chunks)
    IN /\ n = CeilDiv(RunLen(text), 24000)
       /\ \A k \in 1..(n - 1) : RunLen(chunks[k]) = 24000
       /\ RunLen(chunks[n]) >= 1 /\ RunLen(chunks[n]) <= 24000
       /\ ChunksCat(n) = text
       /\ RunLen(text) = 24000 => n = 1
       /\ RunLen(text) = 24001 => n = 2 /\ RunLen(chunks[2]) = 1

\* C6 witness: a text of 24001 characters was split in two
C6_Witness ==
  /\ RunLen(text) = 24001
  /\ Len(chunks) = 2
  /\ RunLen(chunks[2]) = 1

\* C6 witness of the other boundary: 24000 characters, one chunk
C6_WitnessOneChunk == RunLen(text) = 24000 /\ Len(chunks) = 1

\* C7: a chunk reply or a combine reply is accepted only if its summary is a
\* string that is not empty once trimmed; a summary that is missing, not a
\* string or whitespace-only is refused with the parse-failure response of
\* its stage, carrying the raw model text; so every summary returned is a
\* non-empty trimmed string.
C7_SummaryValidated ==
  /\ ReturnedSummary =>
       /\ Len(res.body.summary) > 0
       /\ Trim(res.body.summary) = res.body.summary
  /\ \A k \in 1..Len(replies) :
       (Len(chunks) > 0 /\ FailedSummary(replies[k])) =>
         /\ k = Len(replies)
         /\ pc = "done"
         /\ res.status = 500
         /\ res.body =
              [error |-> IF k <= Len(chunks)
                           THEN "Failed to parse Gemini summary for a PDF chunk."
                           ELSE "Failed to parse combined summary from Gemini.",
               geminiRawResponse |-> ReplyText(replies[k])]

ImageRun == Len(calls) > 0 /\ calls[1].prompt = "image_prompt"

\* C8: processImage returns {title, description} only when the recovered
\* JSON has both, each a string that is not empty once trimmed, and returns
\* them trimmed; when either is missing, not a string, empty or
\* whitespace-only the reply is refused with the "missing or invalid keys"
\* failure carrying the recovered object, and nothing partial is returned.
C8_ImageBothFields ==
  (ImageRun /\ pc = "done" /\ Len(replies) = 1 /\ ~replies[1].threw) =>
    LET parsed == Recovered(replies[1])
        title == GetProp(parsed, kTitle)
        description == GetProp(parsed, kDescription)
        both == NonBlankString(title) /\ NonBlankString(description)
    IN /\ res.status = 200 =>
            /\ both
            /\ res.body = [title |-> Trim(title.v), description |-> Trim(description.v)]
       /\ (Truthy(parsed) /\ TypeOf(parsed) = "object" /\ ~both) =>
            /\ res.status = 500
            /\ res.body = [error |-> "Gemini returned JSON but required keys are missing or invalid.",
                           geminiJson |-> parsed]
       /\ (Truthy(parsed) /\ TypeOf(parsed) = "object" /\ both) => res.status = 200

\* C8 witness: a reply with both fields, padded with spaces, was returned
C8_Witness ==
  /\ ImageRun
  /\ pc = "done"
  /\ res.status = 200
  /\ res.body.title = <<"T">>
  /\ GetProp(Recovered(replies[1]), kTitle).v = <<" ", "T", " ">>

\* C8 witness of the refusal: a reply with a title and a blank description
C8_WitnessRefused ==
  /\ ImageRun
  /\ pc = "done"
  /\ res.status = 500
  /\ "geminiJson" \in DOMAIN res.body
  /\ NonBlankString(GetProp(res.body.geminiJson, kTitle))

\* C9: every failing run of processPdf returns a failure that identifies its
\* stage: the no-text condition, a chunk failure that says which chunk (its
\* position in the chunk plan) failed, or the combine failure; chunk and
\* combine failures carry the raw model text of the failing reply.
C9_FailureIdentifiesStage ==
  /\ (pc = "done" /\ BlankExtraction) =>
       res.body.error = "No selectable text found in PDF. If the PDF is scanned, Kindly upload a text-based PDF."
  /\ \A k \in 1..Len(replies) :
       (Len(chunks) > 0 /\ pc = "done" /\ res.status # 200 /\ k = Len(replies)
          /\ ~replies[k].threw) =>
         /\ "geminiRawResponse" \in DOMAIN res.body
         /\ res.body.geminiRawResponse = ReplyText(replies[k])
         /\ IF k > Len(chunks)
              THEN res.body.error = "Failed to parse combined summary from Gemini."
              ELSE /\ res.body.error = "Failed to parse Gemini summary for a PDF chunk."
                   /\ \A j \in 1..Len(chunks) :
                        j # k => res.body # ChunkFailure(j, ReplyText(replies[k]))

-----------------------------------------------------------------------------
(* extractJsonFromString on its own: one call on an argument drawn from    *)
(* every short text over a small alphabet, a family of longer texts built  *)
(* from a JSON text between a prefix and a suffix, and values that are not *)
(* texts.                                                                  *)

\* the longest text of the exhaustive family
MaxTextLen == 4

JsonAlphabet == {"{", "}", Quote, ":", "1", "a", " ", Backtick}

ShortTexts == UNION { [1..n -> JsonAlphabet] : n \in 0..MaxTextLen }

JsonBodies ==
  { SummaryJson(Quoted(<<"a">>)),
    <<"{">> \o Member(<<"a">>, <<"1">>) \o <<",">> \o Member(<<"b">>, <<"[", "]">>) \o <<"}">>,
    <<"{">> \o Member(<<"a">>, Quoted(Fence)) \o <<"}">>,
    <<"{">> \o Member(<<"a">>, <<"{", "}">>) \o <<"}">>,
    <<"{">> \o Member(<<"a">>, <<"1">>) \o <<",", "}">>,
    <<"[", "1", ",", "t", "r", "u", "e", "]">>,
    <<"f", "a", "l", "s", "e">>,
    <<"n", "u", "l", "l">>,
    <<"-", "1", "0">>,
    Quoted(<<"a", "b">>) }

JsonPrefixes ==
  { <<>>, Fence, Fence \o FenceTag, Fence \o FenceTag \o <<"\n">>,
    <<"S", "u", "r", "e", ":", " ">>, <<"{", " ">> }

JsonSuffixes == { <<>>, Fence, <<"\n">> \o Fence, <<" ", "o", "k">>, <<" ", "}">> }

WrappedTexts == { p \o b \o q : p \in JsonPrefixes, b \in JsonBodies, q \in JsonSuffixes }

NonTexts ==
  { Undefined, Null, Num(0), Num(7), Bool(TRUE), Bool(FALSE), Arr(<<>>), Obj(<<>>), Fn(Null) }

JsonInputs == NonTexts \cup { Str(t) : t \in ShortTexts \cup WrappedTexts }

InitJson ==
  /\ pc = "idle"
  /\ data = NotYet
  /\ text = <<>>
  /\ chunks = <<>>
  /\ chunkSummaries = <<>>
  /\ calls = <<>>
  /\ replies = <<>>
  /\ res = NoResponse
  /\ jin \in JsonInputs
  /\ jout = [threw |-> FALSE, val |-> Undefined]
  /\ jpc = "ready"
  /\ tin = Undefined
  /\ tout = Undefined
  /\ tpc = "idle"

\* lines 40-59: the call
ExtractJson ==
  /\ jpc = "ready"
  /\ jout' = extractJsonFromString(jin)
  /\ jpc' = "done"
  /\ UNCHANGED <<jin, pipeVars, textVars>>

NextJson == ExtractJson

SpecJson == InitJson /\ [][NextJson]_vars

-----------------------------------------------------------------------------
(* Claims about extractJsonFromString *)

\* the argument is a text with neither "{" nor "}" in it
NoBraceText(x) ==
  /\ x.t = "string"
  /\ \A i \in 1..Len(x.v) : x.v[i] \notin {"{", "}"}

\* C10 as stated: extractJsonFromString never throws, whatever its argument,
\* and returns null for every text that contains neither "{" nor "}".
C10_NullWithoutBraces ==
  jpc = "done" =>
    /\ ~jout.threw
    /\ NoBraceText(jin) => jout.val = Null

\* C10 as amended: extractJsonFromString never throws, whatever its argument;
\* for a text that contains neither "{" nor "}" it returns null unless the
\* text, with its fence markers removed and trimmed, is by itself a complete
\* JSON document, which is then returned, and which is never an object.
C10_NeverThrows ==
  jpc = "done" =>
    /\ ~jout.threw
    /\ NoBraceText(jin) =>
         /\ jout.val.t # "object"
         /\ \/ jout.val = Null
            \/ /\ JSONParse(Cleaned(jin.v)).ok
               /\ jout.val = JSONParse(Cleaned(jin.v)).val

\* C10 witness: a text without braces was given and a number came back
C10_Witness ==
  /\ jpc = "done"
  /\ NoBraceText(jin)
  /\ Len(jin.v) > 0
  /\ ~jout.threw
  /\ jout.val.t = "number"

\* the fences put around a JSON text: the opening one bare or tagged json,
\* the closing one bare, the text on the same line or on lines of its own
FenceOpenings == {Fence, Fence \o FenceTag, Fence \o FenceTag \o <<"\n">>}

FenceClosings == {Fence, <<"\n">> \o Fence}

\* jin is the JSON text b between an opening and a closing fence
FencedBody(b) ==
  \E p \in FenceOpenings, q \in FenceClosings : jin = Str(p \o b \o q)

\* C11: for any text J that parses as a JSON object, extractJsonFromString
\* applied to J wrapped in triple-backtick fences (the opening fence bare or
\* tagged json, the closing fence bare) returns the same object as parsing J
\* directly.
C11_FencedRoundTrip ==
  jpc = "done" =>
    \A b \in JsonBodies :
      (FencedBody(b) /\ JSONParse(b).ok /\ JSONParse(b).val.t = "object") =>
        jout = [threw |-> FALSE, val |-> JSONParse(b).val]

-----------------------------------------------------------------------------
(* promiseTextFromResponse on its own: one call on a result drawn from the *)
(* shapes a generateContent result can have, every field of the paths      *)
(* being missing, falsy or filled, and from values that are not objects.   *)

\* a field that the object does not have
Missing == [t |-> "missing", v |-> <<>>]

\* the property k: x of an object literal, nothing when the field is missing
OptProp(k, x) == IF x = Missing THEN <<>> ELSE << <<k, x>> >>

TextOf(c) == Obj(<< <<kText, Str(<<c>>)>> >>)

\* parts of a content
PartLists ==
  { Missing, Arr(<<>>), Arr(<<Obj(<<>>)>>), Arr(<<Obj(<< <<kText, Str(<<>>)>> >>)>>),
    Arr(<<TextOf("p")>>), Arr(<<TextOf("p"), TextOf("q")>>) }

\* content of a candidate
Contents ==
  { Missing, Null } \cup
  { Obj(OptProp(kParts, ps) \o OptProp(kText, t)) :
      ps \in PartLists, t \in {Missing, Str(<<>>), Str(<<"c">>)} }

\* candidates of a result
CandidateLists ==
  { Missing, Null, Arr(<<>>), Str(<<"x">>) } \cup
  { Arr(<<Obj(OptProp(kContent, c))>>) : c \in Contents }

\* the text field of a result: a method, or a plain property
TextFields == { Missing, Fn(Str(<<"f">>)), Fn(Str(<<>>)), Fn(Undefined), Str(<<"g">>) }

OutputTexts == { Missing, Str(<<>>), Str(<<"o">>) }

ResultObjects ==
  { Obj(OptProp(kText, t) \o OptProp(kCandidates, cs) \o OptProp(kOutputText, o)) :
      t \in TextFields, cs \in CandidateLists, o \in OutputTexts }

ResultValues ==
  { Undefined, Null, Num(0), Num(5), Bool(FALSE), Bool(TRUE), Str(<<>>), Str(<<"h", "i">>),
    Arr(<<>>), Arr(<<Num(1)>>), Fn(Null) }

ResponseInputs == ResultObjects \cup ResultValues

InitText ==
  /\ pc = "idle"
  /\ data = NotYet
  /\ text = <<>>
  /\ chunks = <<>>
  /\ chunkSummaries = <<>>
  /\ calls = <<>>
  /\ replies = <<>>
  /\ res = NoResponse
  /\ jin = Undefined
  /\ jout = [threw |-> FALSE, val |-> Undefined]
  /\ jpc = "idle"
  /\ tin \in ResponseInputs
  /\ tout = Undefined
  /\ tpc = "ready"

\* lines 61-71: the call
PromiseText ==
  /\ tpc = "ready"
  /\ tout' = promiseTextFromResponse(tin)
  /\ tpc' = "done"
  /\ UNCHANGED <<tin, pipeVars, jsonVars>>

NextText == PromiseText

SpecText == InitText /\ [][NextText]_vars

-----------------------------------------------------------------------------
(* Claims about promiseTextFromResponse *)

Key(k) == [first |-> FALSE, key |-> k]

First == [first |-> TRUE, key |-> <<>>]

\* the value at the end of a path of property names and first elements,
\* undefined as soon as a step finds nothing
RECURSIVE Path(_, _)
Path(x, steps) ==
  IF Len(steps) = 0 THEN x
  ELSE Path(IF Head(steps).first THEN GetFirst(x) ELSE GetProp(x, Head(steps).key),
            Tail(steps))

\* what the three field strategies find in the result r, in their order
FieldStrategies(r) ==
  << Path(r, <<Key(kCandidates), First, Key(kContent), Key(kParts), First, Key(kText)>>),
     Path(r, <<Key(kCandidates), First, Key(kContent), Key(kText)>>),
     Path(r, <<Key(kOutputText)>>) >>

IsAbsent(x) == x \in {Undefined, Null}

\* the text the stated order gives for r, a field strategy applying when
\* its field is there
StatedText(r) ==
  LET found == FieldStrategies(r)
      hits == {i \in 1..3 : ~IsAbsent(found[i])}
  IN IF IsAbsent(r) THEN Null
     ELSE IF GetProp(r, kText).t = "function" THEN GetProp(r, kText).v
     ELSE IF hits # {} THEN found[Min(hits)]
     ELSE IF r.t = "string" THEN r
     ELSE JSONStringify(r)

\* the same with falsy for absent: a falsy result gives null and a field
\* strategy applies when its field holds a truthy value
TruthyText(r) ==
  LET found == FieldStrategies(r)
      hits == {i \in 1..3 : Truthy(found[i])}
  IN IF ~Truthy(r) THEN Null
     ELSE IF GetProp(r, kText).t = "function" THEN GetProp(r, kText).v
     ELSE IF hits # {} THEN found[Min(hits)]
     ELSE IF r.t = "string" THEN r
     ELSE JSONStringify(r)

\* the result r is left to the last two strategies
NoFieldText(r) ==
  /\ Truthy(r)
  /\ GetProp(r, kText).t # "function"
  /\ \A i \in 1..3 : ~Truthy(FieldStrategies(r)[i])

\* C12 as stated: promiseTextFromResponse returns null for an absent result
\* and otherwise the value of the first strategy that applies, in the order
\* text function, candidates[0].content.parts[0].text,
\* candidates[0].content.text, output_text, the result itself if it is a
\* string, the JSON serialization of the result; only a missing field makes
\* a strategy fall through to the next.
C12_FirstPresentStrategy ==
  tpc = "done" => tout = StatedText(tin)

\* C12 as amended: promiseTextFromResponse returns null for a falsy result
\* and otherwise the value of the first strategy that applies in the same
\* order, the text function applying whenever text is a function and a field
\* strategy applying only when its field holds a truthy value; the last
\* strategy gives a JSON text that parses back to the result, or undefined
\* for a function.
C12_FirstTruthyStrategy ==
  tpc = "done" =>
    /\ tout = TruthyText(tin)
    /\ (NoFieldText(tin) /\ tin.t \notin {"string", "function"}) =>
         /\ tout.t = "string"
         /\ JSONParse(tout.v) = [ok |-> TRUE, val |-> tin]
    /\ (NoFieldText(tin) /\ tin.t = "function") => tout = Undefined

\* C12 witness: parts[0].text is there but empty, and the text of the
\* content, the next strategy, was returned
C12_Witness ==
  /\ tpc = "done"
  /\ FieldStrategies(tin)[1] = Str(<<>>)
  /\ Truthy(FieldStrategies(tin)[2])
  /\ GetProp(tin, kText).t # "function"
  /\ tout = FieldStrategies(tin)[2]

\* C12 witness: the first part of two carries the text that was returned
C12_WitnessFirstPart ==
  /\ tpc = "done"
  /\ GetProp(tin, kText) = Str(<<"g">>)
  /\ Len(Path(tin, <<Key(kCandidates), First, Key(kContent), Key(kParts)>>).v) = 2
  /\ tout = Str(<<"p">>)

=============================================================================
